---- MODULE Spec2Model ----
(***************************************************************************)
(* Tool handlers of mcp_ipf (src/src/mcp_ipf/tools.py) and the server's    *)
(* dispatch (src/src/mcp_ipf/server.py) as a state machine.  One step is   *)
(* one complete tool invocation: the arguments are drawn from small sets,  *)
(* the data source (the IPFClient) is the environment and may raise on any *)
(* call.  The state keeps the active snapshot pointer, the last invocation,*)
(* the data-source calls it issued and what it returned or raised.         *)
(***************************************************************************)
EXTENDS Naturals, Sequences, FiniteSets, TLC

VARIABLES
    active,     \* self.ipf.snapshot_id, the process-wide active snapshot
    initial,    \* the value of the pointer at startup (never changes)
    lastId,     \* the capture ipf.snapshots["$last"] names
    prevId,     \* the capture ipf.snapshots["$prev"] names, NoPrev if none
    lastSet,    \* history: argument of the latest successful ipf_set_snapshot
    inv,        \* the last invocation: [via, name, args]
    calls,      \* data-source calls the last invocation issued, in order
    resp,       \* what the handler's run_tool returned or raised
    served,     \* what server.call_tool returned or raised
    registered, \* server.tool_handlers and the counts of the registration
    pending,    \* tools/call requests received and not yet run
    cli         \* cli_app: the prompt the user is at and the history files

vars == <<active, initial, lastId, prevId, lastSet, inv, calls, resp, served,
          registered, pending, cli>>

----------------------------------------------------------------------------
(* Bounds and value domains *)

MaxSnapshots == 3

SnapName == <<"s1", "s2", "s3", "s4", "s5", "s6">>

\* identifiers of the captures the data source holds
Captures == {SnapName[i] : i \in 1..MaxSnapshots}

Absent == "<absent>"      \* the key is not in the args dict
Null == "<null>"          \* JSON null / Python None
NoPrev == "<noprev>"      \* the registry has no "$prev" entry
NoSet == "<default>"      \* no ipf_set_snapshot has succeeded yet
Aliases == {"$last", "$prev"}
UnknownSnap == "s-unknown"

\* values a snapshot argument (snapshot_id, snapshot_a, snapshot_b) may take
SnapValues == Captures \cup Aliases \cup {UnknownSnap, "", Null, Absent}

\* messages of the exceptions the data source raises
Msgs == {"timeout", "401 Unauthorized"}

\* the environment of one invocation: which data-source call raises (0: none),
\* and the route collections the two fetches of ipf_diff_routes return
RouteEnvs(collections) ==
    [raiseAt : 0..2, msg : Msgs, routes_a : collections, routes_b : collections]

Envs == RouteEnvs({<<>>})

\* longest route collection a fetch returns in the comparison runs
MaxRoutes == 2

\* one next-hop of a route record
Hop(ip, intName, age) == [ip |-> ip, intName |-> intName, age |-> age]

\* one record of technology.routing.routes_ipv4
Route(hostname, protocol, nexthop, metric, id) ==
    [hostname |-> hostname, vrf |-> "default", network |-> "10.0.0.0/24",
     protocol |-> protocol, nexthop |-> nexthop, nhLowestMetric |-> metric, id |-> id]

BaseRoute == Route("r1", "ospf", <<Hop("10.1.1.1", "eth0", "5")>>, 10, "1")

\* the records a fetch may return: two keys (r1, r2); for r1 the base record,
\* a changed metric, a changed protocol, no next-hop, and a record that
\* differs from the base only in id, next-hop age and a second next-hop
Routes ==
    {BaseRoute,
     [BaseRoute EXCEPT !.nhLowestMetric = 20],
     [BaseRoute EXCEPT !.protocol = "bgp"],
     [BaseRoute EXCEPT !.nexthop = <<>>],
     Route("r1", "ospf", <<Hop("10.1.1.1", "eth0", "9"), Hop("10.9.9.9", "eth7", "9")>>,
           10, "2"),
     Route("r2", "ospf", <<Hop("10.1.1.1", "eth0", "5")>>, 10, "3")}

\* the lists of at most n records
ListsUpTo(n) == UNION {[1..k -> Routes] : k \in 0..n}

Collections == ListsUpTo(MaxRoutes)

\* what the fetches return in the runs that also exercise the other tools
FetchSamples ==
    {<<BaseRoute>>,
     <<[BaseRoute EXCEPT !.nhLowestMetric = 20],
       Route("r2", "ospf", <<Hop("10.1.1.1", "eth0", "5")>>, 10, "3")>>}

----------------------------------------------------------------------------
(* Python helpers *)

\* truthiness of an argument value: `if not x`
Truthy(v) == v \notin {Absent, Null, ""}

\* args.get(k)
Get(args, k) == IF args[k] = Absent THEN Null ELSE args[k]

\* args.get(k, d)
GetDefault(args, k, d) == IF args[k] = Absent THEN d ELSE args[k]

\* str(x)
Str(v) == IF v = Null THEN "None" ELSE v

\* the elements of a sequence
Range(seq) == {seq[i] : i \in 1..Len(seq)}

----------------------------------------------------------------------------
(* The snapshot registry of the data source *)

\* ipf.snapshots[s].snapshot_id
Resolve(s) ==
    CASE s = "$last" -> lastId
      [] s = "$prev" -> prevId
      [] OTHER -> s

\* s in ipf.snapshots
Known(s) ==
    \/ s \in Captures
    \/ s = "$last"
    \/ s = "$prev" /\ prevId # NoPrev

----------------------------------------------------------------------------
(* Responses *)

\* the value of "data" when it is no route diff
NoDiff ==
    [present |-> FALSE, snapshot_a_id |-> "", snapshot_b_id |-> "",
     added |-> <<>>, removed |-> <<>>, changed |-> <<>>,
     summary_counts |-> [added |-> 0, removed |-> 0, modified |-> 0],
     message |-> ""]

NoResp ==
    [kind |-> "none", keys |-> {}, success |-> FALSE, data |-> "", error |-> "",
     message |-> "", current_snapshot |-> "", extra |-> <<>>, diff |-> NoDiff]

\* an exception leaving run_tool
Raised(exc, text) ==
    [NoResp EXCEPT !.kind = "raised", !.error = exc, !.message = text]

\* ToolHandler._format_response; cur is self.ipf.snapshot_id when it runs
_format_response(data, success, message, cur) ==
    [kind |-> "envelope",
     keys |-> {"success", "current_snapshot"}
                \cup (IF success THEN {"data"} ELSE {"error"})
                \cup (IF message # "" THEN {"message"} ELSE {}),
     success |-> success,
     data |-> IF success THEN data ELSE "",
     error |-> IF success THEN "" ELSE Str(data),
     message |-> message,
     current_snapshot |-> cur,
     extra |-> <<>>,
     diff |-> NoDiff]

\* a plausible slip: the envelope reports the operation, not the exception
_handle_exception_generic(e, operation, cur) ==
    _format_response("Failed to " \o operation, FALSE, "Failed to " \o operation, cur)

\* ToolHandler._handle_exception; e is str(e)
_handle_exception(e, operation, cur) ==
    _format_response(e, FALSE, "Failed to " \o operation, cur)

\* one call to the data source, the n-th of its invocation
Call(op, target, sid, n, env) ==
    [op |-> op, target |-> target, snapshot_id |-> sid,
     raised |-> env.raiseAt = n,
     msg |-> IF env.raiseAt = n THEN env.msg ELSE "",
     rows |-> <<>>]

\* what a handler leaves behind: response, calls issued, the pointer afterwards
Outcome(r, cs, a) == [resp |-> r, calls |-> cs, active |-> a]

----------------------------------------------------------------------------
(* Handlers without required arguments and without a snapshot argument *)

\* GetFilterHelpToolHandler.run_tool
FilterHelpRun(args, cur, env) ==
    Outcome(_format_response("help", TRUE,
                             "Filter help information retrieved successfully", cur),
            <<>>, cur)

\* GetSnapshotsToolHandler.run_tool
GetSnapshotsRun(args, cur, env) ==
    LET c == Call("get_snapshots", "", "", 1, env) IN
    IF c.raised
    THEN Outcome(_handle_exception(c.msg, "retrieve snapshots", cur), <<c>>, cur)
    ELSE Outcome(_format_response("snapshots", TRUE,
                                  "Snapshots retrieved successfully", cur),
                 <<c>>, cur)

\* GetConnectionInfoToolHandler.run_tool: the inner try swallows the failure
ConnectionInfoRun(args, cur, env) ==
    LET c == Call("get_snapshots", "", "", 1, env) IN
    Outcome(_format_response(IF c.raised THEN "connection" ELSE "connection+snapshots",
                             TRUE, "Connection information retrieved successfully", cur),
            <<c>>, cur)

\* table_map of GetAvailableColumnsToolHandler.run_tool
table_map ==
    [devices |-> "tables/inventory/devices",
     interfaces |-> "tables/inventory/interfaces",
     hosts |-> "tables/inventory/hosts",
     sites |-> "tables/inventory/sites",
     vendors |-> "tables/inventory/summary/vendors",
     routing |-> "tables/networks/routes",
     managed_ipv4 |-> "tables/addressing/managed-devs",
     vlans |-> "tables/vlan/device",
     neighbors |-> "tables/neighbors/all"]

\* the table_type values the input schema advertises ("enum")
table_type_enum ==
    <<"devices", "interfaces", "sites", "vendors", "managed_ipv4", "arp", "mac",
      "routing", "vlans", "neighbors">>

\* a plausible slip: the error lists the schema's enum, not the map's keys
table_map_keys_enum == table_type_enum

\* table_map.keys(), in the order of the dict literal
table_map_keys ==
    <<"devices", "interfaces", "hosts", "sites", "vendors", "routing",
      "managed_ipv4", "vlans", "neighbors">>

\* ", ".join(names)
RECURSIVE JoinComma(_)
JoinComma(names) ==
    IF names = <<>> THEN ""
    ELSE IF Len(names) = 1 THEN names[1]
    ELSE names[1] \o ", " \o JoinComma(Tail(names))

\* GetAvailableColumnsToolHandler.run_tool
AvailableColumnsRun(args, cur, env) ==
    LET table_type == Get(args, "table_type") IN
    IF ~Truthy(table_type)
    THEN Outcome(_format_response("table_type argument is required", FALSE,
                                  "Missing required parameter", cur), <<>>, cur)
    ELSE IF table_type \notin DOMAIN table_map
    THEN Outcome([_format_response("Unknown table type: " \o table_type, FALSE,
                                   "Available table types: " \o JoinComma(table_map_keys),
                                   cur)
                     EXCEPT !.extra = table_map_keys],
                 <<>>, cur)
    ELSE LET c == Call("get_columns", table_map[table_type], "", 1, env) IN
         IF c.raised
         THEN Outcome(_handle_exception(c.msg, "get columns for " \o table_type, cur),
                      <<c>>, cur)
         ELSE Outcome(_format_response("columns", TRUE, "Retrieved columns", cur),
                      <<c>>, cur)

----------------------------------------------------------------------------
(* ipf_set_snapshot *)

\* variant: the pointer takes the identifier before the registry is consulted
SetSnapshotRun_assign_first(args, cur, env) ==
    LET snapshot_id == Get(args, "snapshot_id") IN
    IF ~Truthy(snapshot_id)
    THEN Outcome(_format_response("snapshot_id argument is required", FALSE,
                                  "Missing required parameter", cur), <<>>, cur)
    ELSE IF ~Known(snapshot_id)
    THEN Outcome(_handle_exception("Snapshot not found", "set snapshot to " \o snapshot_id,
                                   snapshot_id), <<>>, snapshot_id)
    ELSE LET new == Resolve(snapshot_id) IN
         Outcome([_format_response("old_snapshot,new_snapshot", TRUE,
                                   "Successfully changed snapshot", new)
                     EXCEPT !.extra = <<cur, new>>],
                 <<>>, new)

\* SetSnapshotToolHandler.run_tool.  The assignment runs the client's property
\* setter: an identifier the registry does not hold raises, any other leaves
\* the pointer at the capture the identifier names.
SetSnapshotRun(args, cur, env) ==
    LET snapshot_id == Get(args, "snapshot_id") IN
    IF ~Truthy(snapshot_id)
    THEN Outcome(_format_response("snapshot_id argument is required", FALSE,
                                  "Missing required parameter", cur), <<>>, cur)
    ELSE IF ~Known(snapshot_id)
    THEN Outcome(_handle_exception("Snapshot not found", "set snapshot to " \o snapshot_id,
                                   cur), <<>>, cur)
    ELSE LET new == Resolve(snapshot_id) IN
         Outcome([_format_response("old_snapshot,new_snapshot", TRUE,
                                   "Successfully changed snapshot", new)
                     EXCEPT !.extra = <<cur, new>>],
                 <<>>, new)

----------------------------------------------------------------------------
(* The eleven query tools: one run_tool shape, one table each *)

QueryTable ==
    [ipf_get_devices |-> "inventory.devices",
     ipf_get_interfaces |-> "inventory.interfaces",
     ipf_get_hosts |-> "inventory.hosts",
     ipf_get_sites |-> "inventory.sites",
     ipf_get_vendors |-> "inventory.vendors",
     ipf_get_routing_table |-> "technology.routing.routes_ipv4",
     ipf_get_managed_ipv4 |-> "technology.addressing.managed_ip_ipv4",
     ipf_get_arp |-> "technology.addressing.arp_table",
     ipf_get_mac |-> "technology.addressing.mac_table",
     ipf_get_vlans |-> "technology.vlans.device_detail",
     ipf_get_neighbors |-> "technology.neighbors.neighbors_all"]

QueryOperation ==
    [ipf_get_devices |-> "retrieve devices",
     ipf_get_interfaces |-> "retrieve interfaces",
     ipf_get_hosts |-> "retrieve hosts",
     ipf_get_sites |-> "retrieve sites",
     ipf_get_vendors |-> "retrieve vendors",
     ipf_get_routing_table |-> "retrieve routing table",
     ipf_get_managed_ipv4 |-> "retrieve managed IPv4 entries",
     ipf_get_arp |-> "retrieve ARP table entries",
     ipf_get_mac |-> "retrieve MAC table entries",
     ipf_get_vlans |-> "retrieve VLANs",
     ipf_get_neighbors |-> "retrieve neighbors"]

QueryTools == DOMAIN QueryTable

\* a plausible slip: the default is captured once, at startup
QuerySnapshotId_startup(args, cur) == GetDefault(args, "snapshot_id", initial)

\* a plausible slip: `args.get("snapshot_id") or self.ipf.snapshot_id`
QuerySnapshotId_or(args, cur) ==
    IF Truthy(Get(args, "snapshot_id")) THEN args.snapshot_id ELSE cur

\* snapshot_id = args.get("snapshot_id", self.ipf.snapshot_id)
QuerySnapshotId(args, cur) == GetDefault(args, "snapshot_id", cur)

\* a plausible slip: the handler switches the client to the queried snapshot
\* and does not switch back
QueryRun_sticky(tool, args, cur, env) ==
    LET snapshot_id == QuerySnapshotId(args, cur)
        c == Call("all", QueryTable[tool], snapshot_id, 1, env)
    IN  IF c.raised
        THEN Outcome(_handle_exception(c.msg, QueryOperation[tool], snapshot_id),
                     <<c>>, snapshot_id)
        ELSE Outcome(_format_response("rows", TRUE, "Retrieved rows", snapshot_id),
                     <<c>>, snapshot_id)

\* variant: the envelope reports the snapshot that was queried
QueryRun_reports_queried(tool, args, cur, env) ==
    LET snapshot_id == QuerySnapshotId(args, cur)
        c == Call("all", QueryTable[tool], snapshot_id, 1, env)
    IN  IF c.raised
        THEN Outcome(_handle_exception(c.msg, QueryOperation[tool], snapshot_id),
                     <<c>>, cur)
        ELSE Outcome(_format_response("rows", TRUE, "Retrieved rows", snapshot_id),
                     <<c>>, cur)

\* Get<Table>ToolHandler.run_tool
QueryRun(tool, args, cur, env) ==
    LET snapshot_id == QuerySnapshotId(args, cur)
        c == Call("all", QueryTable[tool], snapshot_id, 1, env)
    IN  IF c.raised
        THEN Outcome(_handle_exception(c.msg, QueryOperation[tool], cur), <<c>>, cur)
        ELSE Outcome(_format_response("rows", TRUE, "Retrieved rows", cur), <<c>>, cur)

----------------------------------------------------------------------------
(* ipf_compare_table *)

\* attribute paths of the client that name a table
TablePaths == {"inventory.devices", "technology.routing.routes_ipv4"}

\* values the table_path argument may take; the third names no attribute
PathValues == TablePaths \cup {"inventory.bogus", Null, Absent}

\* a plausible slip: the walk tolerates a missing segment
PathExists_any(table_path) == TRUE

\* the getattr walk over table_path.split(".") finds every segment (None has no
\* split, an AttributeError like a missing segment)
PathExists(table_path) == table_path \in TablePaths

\* a plausible slip: the check against the current snapshot is dropped
IsCurrentSnapshot_never(snapshot_id, cur) == FALSE

\* elif snapshot_id == self.ipf.snapshot_id
IsCurrentSnapshot(snapshot_id, cur) == snapshot_id = cur

\* a plausible slip: $prev is used whatever the current snapshot is
SmartSelect_prev(cur, prev, last) ==
    [snapshot_id |-> prev, selected_snapshot |-> "$prev"]

\* variant: the latest capture is always the target
SmartSelect_last(cur, prev, last) ==
    [snapshot_id |-> last, selected_snapshot |-> "$last"]

\* the smart selection when no snapshot_id is given
SmartSelect(cur, prev, last) ==
    IF cur = prev
    THEN [snapshot_id |-> last, selected_snapshot |-> "$last"]
    ELSE [snapshot_id |-> prev, selected_snapshot |-> "$prev"]

\* the part of run_tool after the snapshot is chosen: walk to the table, compare
CompareCall(table_path, snapshot_id, cur, env) ==
    IF ~PathExists(table_path)
    THEN Outcome(_handle_exception("object has no attribute",
                     "access table '" \o Str(table_path)
                         \o "' - verify the table path is correct", cur),
                 <<>>, cur)
    ELSE LET c == Call("compare", table_path, snapshot_id, 1, env) IN
         IF c.raised
         THEN Outcome(_handle_exception(c.msg,
                          "compare snapshots for table '" \o Str(table_path) \o "'", cur),
                      <<c>>, cur)
         ELSE Outcome(_format_response("diff", TRUE, "Comparison completed", cur),
                      <<c>>, cur)

\* CompareTableToolHandler.run_tool
CompareTableRun(args, cur, env) ==
    IF args.table_path = Absent
    THEN \* KeyError; the handler's f-string then reads the unbound table_path
         Outcome(Raised("UnboundLocalError", "table_path"), <<>>, cur)
    ELSE
    LET table_path == args.table_path
        snapshot_id == Get(args, "snapshot_id")
    IN  IF ~Truthy(snapshot_id)
        THEN IF prevId = NoPrev
             THEN \* self.ipf.snapshots["$prev"] raises KeyError
                  Outcome(_handle_exception("'$prev'",
                              "compare snapshots for table '" \o Str(table_path) \o "'", cur),
                          <<>>, cur)
             ELSE CompareCall(table_path, SmartSelect(cur, prevId, lastId).snapshot_id,
                              cur, env)
        ELSE IF IsCurrentSnapshot(snapshot_id, cur)
        THEN \* return (None, "Cannot compare against the current snapshot")
             Outcome([NoResp EXCEPT !.kind = "tuple",
                         !.message = "Cannot compare against the current snapshot"],
                     <<>>, cur)
        ELSE CompareCall(table_path, snapshot_id, cur, env)

----------------------------------------------------------------------------
(* ipf_diff_routes: the route comparison *)

\* a route record's fields the comparison reads; the others are not looked at
make_key(route) ==
    Str(route.hostname) \o "|" \o Str(route.vrf) \o "|" \o Str(route.network)

\* variant: the record's id is compared along with the metric
simplify_with_id(route) ==
    LET nexthop == route.nexthop
        first == Len(nexthop) > 0
    IN  [protocol |-> route.protocol,
         nexthop_ip |-> IF first THEN nexthop[1].ip ELSE Null,
         intName |-> IF first THEN nexthop[1].intName ELSE Null,
         metric |-> <<route.nhLowestMetric, route.id>>]

\* simplify(route): the projection compared; a missing or empty nexthop list
\* leaves both next-hop fields None
simplify(route) ==
    LET nexthop == route.nexthop
        first == Len(nexthop) > 0
    IN  [protocol |-> route.protocol,
         nexthop_ip |-> IF first THEN nexthop[1].ip ELSE Null,
         intName |-> IF first THEN nexthop[1].intName ELSE Null,
         metric |-> route.nhLowestMetric]

\* the keys of the projection, in the order of the dict literal
ProjectionFields == <<"protocol", "nexthop_ip", "intName", "metric">>

\* a dict is the sequence of its items in insertion order
HasKey(d, k) == \E i \in 1..Len(d) : d[i].key = k

\* d[k]
DictGet(d, k) == d[CHOOSE i \in 1..Len(d) : d[i].key = k].value

\* list(d)
KeysOf(d) == [i \in 1..Len(d) |-> d[i].key]

\* variant: a key already there keeps its first value
DictPut_first(d, k, v) ==
    IF HasKey(d, k) THEN d ELSE Append(d, [key |-> k, value |-> v])

\* d[k] = v: a key already there keeps its place and takes the new value
DictPut(d, k, v) ==
    IF HasKey(d, k)
    THEN [i \in 1..Len(d) |-> IF d[i].key = k THEN [key |-> k, value |-> v] ELSE d[i]]
    ELSE Append(d, [key |-> k, value |-> v])

\* variant: a list of (key, projection) pairs, one per record
ToDict_pairs(routes) ==
    [i \in 1..Len(routes) |-> [key |-> make_key(routes[i]), value |-> simplify(routes[i])]]

\* {make_key(r): simplify(r) for r in routes}
RECURSIVE ToDict(_)
ToDict(routes) ==
    IF routes = <<>> THEN <<>>
    ELSE LET r == routes[Len(routes)] IN
         DictPut(ToDict(SubSeq(routes, 1, Len(routes) - 1)), make_key(r), simplify(r))

\* variant: the membership test on dict_b is inverted
RemovedKeys_inverted(dict_a, dict_b) ==
    SelectSeq(KeysOf(dict_a), LAMBDA k : HasKey(dict_b, k))

\* the keys of dict_a that are not in dict_b, in dict_a's order
RemovedKeys(dict_a, dict_b) ==
    SelectSeq(KeysOf(dict_a), LAMBDA k : ~HasKey(dict_b, k))

\* variant: the membership test on dict_a is dropped
AddedKeys_all(dict_a, dict_b) == KeysOf(dict_b)

\* the keys of dict_b that are not in dict_a, in dict_b's order
AddedKeys(dict_a, dict_b) ==
    SelectSeq(KeysOf(dict_b), LAMBDA k : ~HasKey(dict_a, k))

\* variant: every field is reported, the unchanged ones too
Changes_all(pa, pb) ==
    [field \in Range(ProjectionFields) |-> [from |-> pa[field], to |-> pb[field]]]

\* the changes dict of one key: the fields whose values differ
Changes(pa, pb) ==
    [field \in {f \in Range(ProjectionFields) : pa[f] # pb[f]} |->
        [from |-> pa[field], to |-> pb[field]]]

\* the changed list: keys in both dicts whose projections differ
ChangedEntries(dict_a, dict_b) ==
    LET both == SelectSeq(dict_a,
                    LAMBDA e : /\ HasKey(dict_b, e.key)
                               /\ e.value # DictGet(dict_b, e.key)
                               /\ DOMAIN Changes(e.value, DictGet(dict_b, e.key)) # {})
    IN  [i \in 1..Len(both) |->
            [route |-> both[i].key,
             changes |-> Changes(both[i].value, DictGet(dict_b, both[i].key))]]

\* variant: modified counts every key the two dicts share
_compare_routes_shared(routes_a, routes_b, snapshot_a, snapshot_b) ==
    LET dict_a == ToDict(routes_a)
        dict_b == ToDict(routes_b)
        removed == RemovedKeys(dict_a, dict_b)
        changed == ChangedEntries(dict_a, dict_b)
        added == AddedKeys(dict_a, dict_b)
        summary_counts ==
            [added |-> Len(added), removed |-> Len(removed),
             modified |-> Len(dict_a) - Len(removed)]
    IN  [present |-> TRUE,
         snapshot_a_id |-> snapshot_a,
         snapshot_b_id |-> snapshot_b,
         added |-> added,
         removed |-> removed,
         changed |-> changed,
         summary_counts |-> summary_counts,
         message |-> "Route table comparison complete. Found "
                        \o ToString(summary_counts.added) \o " added, "
                        \o ToString(summary_counts.removed) \o " removed, and "
                        \o ToString(summary_counts.modified) \o " modified routes."]

\* DiffRoutesToolHandler._compare_routes
_compare_routes(routes_a, routes_b, snapshot_a, snapshot_b) ==
    LET dict_a == ToDict(routes_a)
        dict_b == ToDict(routes_b)
        removed == RemovedKeys(dict_a, dict_b)
        changed == ChangedEntries(dict_a, dict_b)
        added == AddedKeys(dict_a, dict_b)
        summary_counts ==
            [added |-> Len(added), removed |-> Len(removed), modified |-> Len(changed)]
    IN  [present |-> TRUE,
         snapshot_a_id |-> snapshot_a,
         snapshot_b_id |-> snapshot_b,
         added |-> added,
         removed |-> removed,
         changed |-> changed,
         summary_counts |-> summary_counts,
         message |-> "Route table comparison complete. Found "
                        \o ToString(summary_counts.added) \o " added, "
                        \o ToString(summary_counts.removed) \o " removed, and "
                        \o ToString(summary_counts.modified) \o " modified routes."]

----------------------------------------------------------------------------
(* ipf_diff_routes *)

\* if snapshot_a == snapshot_b
SameSnapshot(snapshot_a, snapshot_b) == snapshot_a = snapshot_b

\* the two fetches and the comparison of DiffRoutesToolHandler.run_tool
\* variant: a failed second fetch is taken as an empty collection
DiffRoutesFetch_partial(snapshot_a, snapshot_b, cur, env) ==
    LET ca == Call("all", "technology.routing.routes_ipv4", snapshot_a, 1, env)
        cb == Call("all", "technology.routing.routes_ipv4", snapshot_b, 2, env)
        ra == [ca EXCEPT !.rows = env.routes_a]
        rows_b == IF cb.raised THEN <<>> ELSE env.routes_b
        result == _compare_routes(env.routes_a, rows_b, snapshot_a, snapshot_b)
        operation == "compare routes between snapshots '" \o Str(snapshot_a)
                         \o "' and '" \o Str(snapshot_b) \o "'"
    IN  IF ca.raised
        THEN Outcome(_handle_exception(ca.msg, operation, cur), <<ca>>, cur)
        ELSE Outcome([_format_response("routediff", TRUE, result.message, cur)
                         EXCEPT !.diff = result],
                     <<ra, [cb EXCEPT !.rows = rows_b]>>, cur)

DiffRoutesFetch(snapshot_a, snapshot_b, cur, env) ==
    LET ca == Call("all", "technology.routing.routes_ipv4", snapshot_a, 1, env)
        cb == Call("all", "technology.routing.routes_ipv4", snapshot_b, 2, env)
        ra == [ca EXCEPT !.rows = env.routes_a]
        rb == [cb EXCEPT !.rows = env.routes_b]
        result == _compare_routes(env.routes_a, env.routes_b, snapshot_a, snapshot_b)
        operation == "compare routes between snapshots '" \o Str(snapshot_a)
                         \o "' and '" \o Str(snapshot_b) \o "'"
    IN  IF ca.raised
        THEN Outcome(_handle_exception(ca.msg, operation, cur), <<ca>>, cur)
        ELSE IF cb.raised
        THEN Outcome(_handle_exception(cb.msg, operation, cur), <<ra, cb>>, cur)
        ELSE Outcome([_format_response("routediff", TRUE, result.message, cur)
                         EXCEPT !.diff = result],
                     <<ra, rb>>, cur)

\* DiffRoutesToolHandler.run_tool
DiffRoutesRun(args, cur, env) ==
    IF args.snapshot_a = Absent
    THEN \* KeyError; the handler's f-string then reads the unbound snapshot_a
         Outcome(Raised("UnboundLocalError", "snapshot_a"), <<>>, cur)
    ELSE IF args.snapshot_b = Absent
    THEN Outcome(Raised("UnboundLocalError", "snapshot_b"), <<>>, cur)
    ELSE IF SameSnapshot(args.snapshot_a, args.snapshot_b)
    THEN Outcome(_format_response(Null, FALSE,
                     "Cannot compare the same snapshot against itself", cur), <<>>, cur)
    ELSE DiffRoutesFetch(args.snapshot_a, args.snapshot_b, cur, env)

----------------------------------------------------------------------------
(* Arguments *)

EmptyArgs ==
    [isdict |-> TRUE, snapshot_id |-> Absent, table_path |-> Absent,
     snapshot_a |-> Absent, snapshot_b |-> Absent, table_type |-> Absent]

\* arguments that are not a mapping (a list, a string, null)
NotADict == [EmptyArgs EXCEPT !.isdict = FALSE]

SnapshotArgs == {[EmptyArgs EXCEPT !.snapshot_id = s] : s \in SnapValues}

CompareArgs ==
    {[EmptyArgs EXCEPT !.table_path = p, !.snapshot_id = s] :
        p \in PathValues, s \in SnapValues}

DiffArgs ==
    {[EmptyArgs EXCEPT !.snapshot_a = a, !.snapshot_b = b] :
        a \in SnapValues, b \in SnapValues}

ColumnsArgs ==
    {[EmptyArgs EXCEPT !.table_type = t] :
        t \in {"devices", "routing", "arp", "mac", "platforms", "", Null, Absent}}

----------------------------------------------------------------------------
(* server.py: the registry and call_tool *)

\* names under which register_tool_handlers adds a handler
tool_handlers ==
    {"ipf_get_filter_help", "ipf_get_snapshots", "ipf_set_snapshot",
     "ipf_get_available_columns", "ipf_get_connection_info", "ipf_compare_table"}
        \cup QueryTools

\* the (name, class) list of register_tool_handlers, in its order
tool_classes ==
    <<"ipf_get_filter_help", "ipf_get_snapshots", "ipf_set_snapshot",
      "ipf_get_devices", "ipf_get_interfaces", "ipf_get_hosts", "ipf_get_sites",
      "ipf_get_vendors", "ipf_get_vlans", "ipf_get_routing_table",
      "ipf_get_managed_ipv4", "ipf_get_arp", "ipf_get_mac", "ipf_get_neighbors",
      "ipf_get_available_columns", "ipf_get_connection_info", "ipf_compare_table">>

\* the ToolHandler subclasses of the tools module, by the name each registers
\* under, in the order inspect.getmembers yields the classes
discover_tool_handlers ==
    <<"ipf_compare_table", "ipf_diff_routes", "ipf_get_arp",
      "ipf_get_available_columns", "ipf_get_connection_info", "ipf_get_devices",
      "ipf_get_filter_help", "ipf_get_hosts", "ipf_get_interfaces", "ipf_get_mac",
      "ipf_get_managed_ipv4", "ipf_get_neighbors", "ipf_get_routing_table",
      "ipf_get_sites", "ipf_get_snapshots", "ipf_get_vendors", "ipf_get_vlans",
      "ipf_set_snapshot">>

\* no registration has run: tool_handlers = {}
NotRegistered ==
    [by |-> "none", names |-> {}, registered_count |-> 0, failed_count |-> 0,
     discovered |-> 0, raised |-> {}, listed |-> <<FALSE, {}>>]

\* variant: the first failure ends the loop
RegisterLoop_stop(classes, failing, by) ==
    LET upto == IF \E i \in 1..Len(classes) : classes[i] \in failing
                THEN (CHOOSE i \in 1..Len(classes) :
                         /\ classes[i] \in failing
                         /\ \A j \in 1..(i - 1) : classes[j] \notin failing) - 1
                ELSE Len(classes)
    IN  [NotRegistered EXCEPT !.by = by,
                              !.raised = failing \cap Range(classes),
                              !.names = {classes[i] : i \in 1..upto},
                              !.registered_count = upto,
                              !.failed_count = Len(classes) - upto,
                              !.discovered = Len(classes)]

\* the loop both registration functions run: construct the handler, get its
\* description, add it; a class for which either raises is counted as failed
\* and the loop goes on
RegisterLoop(classes, failing, by) ==
    LET step[i \in 0..Len(classes)] ==
            IF i = 0
            THEN [NotRegistered EXCEPT !.by = by, !.discovered = Len(classes),
                                       !.raised = failing \cap Range(classes)]
            ELSE IF classes[i] \in failing
                 THEN [step[i - 1] EXCEPT !.failed_count = @ + 1]
                 ELSE [step[i - 1] EXCEPT !.names = @ \cup {classes[i]},
                                          !.registered_count = @ + 1]
    IN  step[Len(classes)]

\* server.register_tool_handlers
register_tool_handlers(failing) ==
    RegisterLoop(tool_classes, failing, "register_tool_handlers")

\* registry.register_discovered_tools(tools, ipf_client, add_tool_handler)
register_discovered_tools(failing) ==
    RegisterLoop(discover_tool_handlers, failing, "register_discovered_tools")

\* server.list_tools: the descriptions of the registered handlers, without
\* those whose get_tool_description raises
list_tools(failing) == registered.names \ failing

\* names a client may send: the registered ones, the route diff, a stranger
ToolNames == tool_handlers \cup {"ipf_diff_routes", "ipf_no_such_tool"}

\* tool_handler.run_tool(arguments), by the handler's class
RunTool(name, args, cur, env) ==
    CASE name \in QueryTools -> QueryRun(name, args, cur, env)
      [] name = "ipf_set_snapshot" -> SetSnapshotRun(args, cur, env)
      [] name = "ipf_compare_table" -> CompareTableRun(args, cur, env)
      [] name = "ipf_diff_routes" -> DiffRoutesRun(args, cur, env)
      [] name = "ipf_get_available_columns" -> AvailableColumnsRun(args, cur, env)
      [] name = "ipf_get_snapshots" -> GetSnapshotsRun(args, cur, env)
      [] name = "ipf_get_connection_info" -> ConnectionInfoRun(args, cur, env)
      [] name = "ipf_get_filter_help" -> FilterHelpRun(args, cur, env)

Direct == [kind |-> "direct", exc |-> "", text |-> ""]

\* server.call_tool: the handler's outcome and what call_tool itself does
call_tool(name, arguments, cur, env) ==
    IF ~arguments.isdict
    THEN [out |-> Outcome(NoResp, <<>>, cur),
          served |-> [kind |-> "raised", exc |-> "RuntimeError",
                      text |-> "arguments must be dictionary"]]
    ELSE IF name \notin registered.names
    THEN [out |-> Outcome(NoResp, <<>>, cur),
          served |-> [kind |-> "raised", exc |-> "ValueError",
                      text |-> "Unknown tool: " \o name]]
    ELSE LET out == RunTool(name, arguments, cur, env) IN
         IF out.resp.kind = "raised"
         THEN [out |-> out,
               served |-> [kind |-> "raised", exc |-> "RuntimeError",
                           text |-> "Tool execution failed"]]
         ELSE [out |-> out,
               served |-> [kind |-> "returned", exc |-> "", text |-> ""]]

----------------------------------------------------------------------------
(* The state machine *)

\* nothing is pending and the command-line client is not in use
NothingElse ==
    /\ pending = <<>>
    /\ cli = [at |-> "off", files |-> {}, asked |-> "", answer |-> "", removed |-> {}]

\* initialize_ipf_client: the client and its snapshot registry
InitTools ==
    /\ active \in Captures
    /\ initial = active
    /\ lastId \in Captures
    /\ prevId \in Captures \cup {NoPrev}
    /\ lastSet = NoSet
    /\ inv = [via |-> "none", name |-> "", args |-> EmptyArgs]
    /\ calls = <<>>
    /\ resp = NoResp
    /\ served = Direct

\* main: initialize_ipf_client, then register_tool_handlers, no class failing
Init ==
    /\ registered = register_tool_handlers({})
    /\ NothingElse
    /\ InitTools

\* the state after one invocation
Finish(via, name, args, out, srv) ==
    /\ active' = out.active
    /\ inv' = [via |-> via, name |-> name, args |-> args]
    /\ calls' = out.calls
    /\ resp' = out.resp
    /\ served' = srv
    /\ lastSet' = IF /\ name = "ipf_set_snapshot"
                     /\ out.resp.kind = "envelope"
                     /\ out.resp.success
                  THEN args.snapshot_id
                  ELSE lastSet
    /\ UNCHANGED <<initial, lastId, prevId, registered, pending, cli>>

\* no invocation is in progress: the server waits for the next request
Idle == inv.via = "none"

\* a tools/call request for name reaches server.call_tool
Serve(name, arguments, env) ==
    LET r == call_tool(name, arguments, active, env) IN
    Finish("call_tool", name, arguments, r.out, r.served)

CallSetSnapshot ==
    /\ Idle
    /\ \E arguments \in SnapshotArgs \cup {NotADict}, env \in Envs :
           Serve("ipf_set_snapshot", arguments, env)

CallQuery ==
    /\ Idle
    /\ \E tool \in QueryTools, arguments \in SnapshotArgs \cup {NotADict}, env \in Envs :
           Serve(tool, arguments, env)

CallCompareTable ==
    /\ Idle
    /\ \E arguments \in CompareArgs \cup {NotADict}, env \in Envs :
           Serve("ipf_compare_table", arguments, env)

CallAvailableColumns ==
    /\ Idle
    /\ \E arguments \in ColumnsArgs \cup {NotADict}, env \in Envs :
           Serve("ipf_get_available_columns", arguments, env)

CallInfo ==
    /\ Idle
    /\ \E name \in {"ipf_get_snapshots", "ipf_get_connection_info", "ipf_get_filter_help"},
          arguments \in {EmptyArgs, NotADict}, env \in Envs :
           Serve(name, arguments, env)

\* a request for a name that is not in tool_handlers
CallUnregistered ==
    /\ Idle
    /\ \E name \in ToolNames \ tool_handlers, arguments \in {EmptyArgs, NotADict},
          env \in Envs :
           Serve(name, arguments, env)

\* run_tool of a DiffRoutesToolHandler object (the server registers none)
RunDiffRoutes ==
    /\ Idle
    /\ \E args \in DiffArgs,
          env \in {e \in RouteEnvs(FetchSamples) : e.routes_a # e.routes_b} :
           Finish("run_tool", "ipf_diff_routes", args,
                  DiffRoutesRun(args, active, env), Direct)

\* the result is handed back; the server waits for the next request
Reply ==
    /\ ~Idle
    /\ inv' = [via |-> "none", name |-> "", args |-> EmptyArgs]
    /\ calls' = <<>>
    /\ resp' = NoResp
    /\ served' = Direct
    /\ registered' = [registered EXCEPT !.listed = NotRegistered.listed]
    /\ UNCHANGED <<active, initial, lastId, prevId, lastSet, pending, cli>>

Next ==
    \/ CallSetSnapshot
    \/ CallQuery
    \/ CallCompareTable
    \/ CallAvailableColumns
    \/ CallInfo
    \/ CallUnregistered
    \/ RunDiffRoutes
    \/ Reply

Spec == Init /\ [][Next]_vars

----------------------------------------------------------------------------
(* The route comparison on its own: ipf_diff_routes over every pair of
   collections of at most MaxRoutes records, both fetches returning *)

InitDiff ==
    /\ Init
    /\ active = SnapName[1]
    /\ lastId = SnapName[1]
    /\ prevId = NoPrev

CompareRoutes ==
    /\ Idle
    /\ \E routes_a \in Collections, routes_b \in Collections :
           LET args == [EmptyArgs EXCEPT !.snapshot_a = "snap-a", !.snapshot_b = "snap-b"]
               env == [raiseAt |-> 0, msg |-> "timeout",
                       routes_a |-> routes_a, routes_b |-> routes_b]
           IN  Finish("run_tool", "ipf_diff_routes", args,
                      DiffRoutesRun(args, active, env), Direct)

NextDiff ==
    \/ CompareRoutes
    \/ Reply

SpecDiff == InitDiff /\ [][NextDiff]_vars

----------------------------------------------------------------------------
(* The route key: ipf_diff_routes over collections of one record whose
   hostname and vrf are absent (None), the text "None", or hold a "|" *)

\* records that differ in hostname, vrf and metric only
KeyRoutes ==
    {[BaseRoute EXCEPT !.hostname = h, !.vrf = v, !.nhLowestMetric = m] :
        h \in {"a", "a|b", Null, "None"},
        v \in {"c", "b|c", Null, "None"},
        m \in {10, 20}}

CompareKeyed ==
    /\ Idle
    /\ \E ra \in KeyRoutes, rb \in KeyRoutes :
           LET args == [EmptyArgs EXCEPT !.snapshot_a = "snap-a", !.snapshot_b = "snap-b"]
               env == [raiseAt |-> 0, msg |-> "timeout",
                       routes_a |-> <<ra>>, routes_b |-> <<rb>>]
           IN  Finish("run_tool", "ipf_diff_routes", args,
                      DiffRoutesRun(args, active, env), Direct)

NextKey ==
    \/ CompareKeyed
    \/ Reply

SpecKey == InitDiff /\ [][NextKey]_vars

----------------------------------------------------------------------------
(* Registration: either registration function runs once, some classes
   failing; then the server lists its tools and dispatches calls by name *)

\* at most this many classes fail in one registration or one listing
MaxFailures == 1

\* the sets of at most n members of S
RECURSIVE AtMost(_, _)
AtMost(S, n) ==
    IF n = 0 THEN {{}}
    ELSE LET smaller == AtMost(S, n - 1) IN
         smaller \cup {t \cup {x} : t \in smaller, x \in S}

InitReg ==
    /\ registered = NotRegistered
    /\ NothingElse
    /\ InitTools
    /\ active = SnapName[1]
    /\ lastId = SnapName[1]
    /\ prevId = NoPrev

RegisterToolHandlers ==
    /\ registered.by = "none"
    /\ \E failing \in AtMost(Range(tool_classes), MaxFailures) :
           registered' = register_tool_handlers(failing)
    /\ UNCHANGED <<active, initial, lastId, prevId, lastSet, inv, calls, resp, served,
                   pending, cli>>

RegisterDiscoveredTools ==
    /\ registered.by = "none"
    /\ \E failing \in AtMost(Range(discover_tool_handlers), MaxFailures) :
           registered' = register_discovered_tools(failing)
    /\ UNCHANGED <<active, initial, lastId, prevId, lastSet, inv, calls, resp, served,
                   pending, cli>>

\* a tools/list request
ListTools ==
    /\ Idle
    /\ registered.by # "none"
    /\ \E failing \in AtMost(registered.names, MaxFailures) :
           registered' = [registered EXCEPT !.listed = <<TRUE, list_tools(failing)>>]
    /\ inv' = [via |-> "list_tools", name |-> "", args |-> EmptyArgs]
    /\ UNCHANGED <<active, initial, lastId, prevId, lastSet, calls, resp, served,
                   pending, cli>>

\* a tools/call request for any name, with a mapping of no arguments
CallByName ==
    /\ Idle
    /\ registered.by # "none"
    /\ \E name \in ToolNames, env \in Envs : Serve(name, EmptyArgs, env)

NextReg ==
    \/ RegisterToolHandlers
    \/ RegisterDiscoveredTools
    \/ ListTools
    \/ CallByName
    \/ Reply

SpecReg == InitReg /\ [][NextReg]_vars

\* the operations the tools module defines a handler class for
HandlerNames == Range(discover_tool_handlers)

\* register_tool_handlers ran and no class failed
ServerRegisteredAll ==
    /\ registered.by = "register_tool_handlers"
    /\ registered.raised = {}

\* C21: after register_tool_handlers ran with no failure, every handler class
\* of the tools module, ipf_diff_routes included, is in the registry, is
\* listed by list_tools and is dispatched by call_tool under its name.
C21_CatalogComplete ==
    ServerRegisteredAll
        => /\ HandlerNames \subseteq registered.names
           /\ (registered.listed[1] /\ registered.listed[2] = registered.names)
                  => HandlerNames \subseteq registered.listed[2]
           /\ (inv.via = "call_tool" /\ inv.name \in HandlerNames)
                  => served # [kind |-> "raised", exc |-> "ValueError",
                               text |-> "Unknown tool: " \o inv.name]

\* the classes the registration that ran went through
ClassesTried ==
    IF registered.by = "register_tool_handlers"
    THEN tool_classes
    ELSE discover_tool_handlers

\* C23: a class whose construction or description raises is not registered,
\* every other class of the list is, and the counts add up: registered plus
\* failed is the number of classes (register_discovered_tools returns the
\* two counts).
C23_RegistrationIsolatesFailures ==
    registered.by # "none"
        => /\ registered.names = Range(ClassesTried) \ registered.raised
           /\ registered.registered_count = Cardinality(registered.names)
           /\ registered.failed_count = Cardinality(registered.raised)
           /\ registered.registered_count + registered.failed_count = Len(ClassesTried)
           /\ registered.discovered = Len(ClassesTried)
           /\ (inv.via = "call_tool" /\ inv.name \in registered.raised)
                  => served.exc = "ValueError"
           /\ (inv.via = "call_tool" /\ inv.name \in Range(ClassesTried) \ registered.raised)
                  => served.exc # "ValueError"

\* discovery registered everything but one class, and a call to another
\* class was dispatched
C23_Witness ==
    /\ registered.by = "register_discovered_tools"
    /\ registered.raised = {"ipf_compare_table"}
    /\ registered.registered_count = Len(discover_tool_handlers) - 1
    /\ registered.failed_count = 1
    /\ inv.via = "call_tool"
    /\ inv.name = "ipf_diff_routes"
    /\ served.kind # "raised" \/ served.exc # "ValueError"

----------------------------------------------------------------------------
(* Concurrent requests.  The server runs every tools/call as a task of one
   event loop; a task gives way to the others only where it awaits.  Here
   the handlers are followed read by read of the pointer. *)

\* requests in flight at one time
MaxTasks == 2

\* the requests: a query without snapshot_id, and ipf_set_snapshot with a
\* capture, an alias, an unknown identifier
ConcRequests ==
    {[name |-> "ipf_get_devices", snapshot_id |-> Absent]}
        \cup {[name |-> "ipf_set_snapshot", snapshot_id |-> s] :
                  s \in {SnapName[1], SnapName[2], "$last", UnknownSnap}}

\* a request as received: nothing of its handler has run
NewTask(r) ==
    [name |-> r.name, snapshot_id |-> r.snapshot_id, pc |-> "received",
     fetched |-> "", old_snapshot |-> "", new_snapshot |-> "",
     success |-> FALSE, current_snapshot |-> ""]

\* variant: the handler is suspended between two of its statements
Yields_everywhere(task) == TRUE

\* call_tool returns tool_handler.run_tool(arguments) without awaiting, and no
\* run_tool awaits: a handler that has started is never suspended
Yields(task) == FALSE

\* the handler of task i is in the middle of run_tool
Midway(i) == pending[i].pc \notin {"received", "done"}

\* the event loop may run task i: no other task is midway, unless suspended
CanRun(i) ==
    \A j \in 1..Len(pending) : (j # i /\ Midway(j)) => Yields(pending[j])

Unmoved == <<initial, lastId, prevId, inv, calls, resp, served, registered, cli>>

\* a tools/call request arrives
Receive ==
    /\ Len(pending) < MaxTasks
    /\ \E r \in ConcRequests : pending' = Append(pending, NewTask(r))
    /\ UNCHANGED <<active, lastSet>>
    /\ UNCHANGED Unmoved

\* a query reads the pointer as its default and fetches; the fetch may raise
QueryFetch ==
    \E i \in 1..Len(pending) :
        /\ pending[i].name \in QueryTools
        /\ pending[i].pc = "received"
        /\ CanRun(i)
        /\ \E raises \in BOOLEAN :
               pending' = [pending EXCEPT
                              ![i].pc = "fetched",
                              ![i].fetched = QuerySnapshotId(pending[i], active),
                              ![i].success = ~raises]
        /\ UNCHANGED <<active, lastSet>>
        /\ UNCHANGED Unmoved

\* _format_response or _handle_exception reads the pointer for the envelope
QueryRespond ==
    \E i \in 1..Len(pending) :
        /\ pending[i].name \in QueryTools
        /\ pending[i].pc = "fetched"
        /\ CanRun(i)
        /\ pending' = [pending EXCEPT ![i].pc = "done", ![i].current_snapshot = active]
        /\ UNCHANGED <<active, lastSet>>
        /\ UNCHANGED Unmoved

\* ipf_set_snapshot up to the assignment: the check of the argument, the
\* read of old_snapshot, the setter
SetAssign ==
    \E i \in 1..Len(pending) :
        /\ pending[i].name = "ipf_set_snapshot"
        /\ pending[i].pc = "received"
        /\ CanRun(i)
        /\ LET snapshot_id == Get(pending[i], "snapshot_id") IN
           IF Truthy(snapshot_id) /\ Known(snapshot_id)
           THEN /\ active' = Resolve(snapshot_id)
                /\ lastSet' = snapshot_id
                /\ pending' = [pending EXCEPT ![i].pc = "assigned",
                                              ![i].old_snapshot = active]
           ELSE /\ pending' = [pending EXCEPT ![i].pc = "done",
                                              ![i].current_snapshot = active]
                /\ UNCHANGED <<active, lastSet>>
        /\ UNCHANGED Unmoved

\* ipf_set_snapshot after the assignment: new_snapshot and the envelope read
\* the pointer again
SetRespond ==
    \E i \in 1..Len(pending) :
        /\ pending[i].name = "ipf_set_snapshot"
        /\ pending[i].pc = "assigned"
        /\ CanRun(i)
        /\ pending' = [pending EXCEPT ![i].pc = "done", ![i].success = TRUE,
                                      ![i].new_snapshot = active,
                                      ![i].current_snapshot = active]
        /\ UNCHANGED <<active, lastSet>>
        /\ UNCHANGED Unmoved

\* the result of a finished task is sent
Deliver ==
    \E i \in 1..Len(pending) :
        /\ pending[i].pc = "done"
        /\ pending' = [k \in 1..(Len(pending) - 1) |->
                           IF k < i THEN pending[k] ELSE pending[k + 1]]
        /\ UNCHANGED <<active, lastSet>>
        /\ UNCHANGED Unmoved

NextConc ==
    \/ Receive
    \/ QueryFetch
    \/ QueryRespond
    \/ SetAssign
    \/ SetRespond
    \/ Deliver

\* the pointer starts on the first capture; "$last" names the second
InitConc ==
    /\ Init
    /\ active = SnapName[1]
    /\ lastId = SnapName[2]
    /\ prevId = SnapName[1]

SpecConc == InitConc /\ [][NextConc]_vars

----------------------------------------------------------------------------
(* cli_app: the conversation history files, the session menu and the chat
   loop.  One step is one prompt answered by the user. *)

\* ConversationManager.db_files: the database, its -shm and its -wal file
DbFiles == {"db", "shm", "wal"}

\* what the user may type at a confirmation prompt
Answers == {"", "y", "Y", "yes", "YES", "n", "N", "no", "No", "maybe", " y"}

\* str.lower() on those answers
Lower(text) ==
    CASE text = "Y" -> "y"
      [] text = "YES" -> "yes"
      [] text = "N" -> "n"
      [] text = "No" -> "no"
      [] OTHER -> text

\* ConversationManager.clear_database: nothing is done without the database
\* file; otherwise every existing file is unlinked, and the result is True
\* when no unlink raised
clear_database(files, failing) ==
    IF "db" \notin files
    THEN [ok |-> FALSE, files |-> files]
    ELSE [ok |-> files \cap failing = {}, files |-> files \cap failing]

\* option 2 of prompt_for_session: the answers that cancel
Option2Declined(confirm) ==
    Lower(confirm) = "n" \/ Lower(confirm) \notin {"", "y", "yes"}

\* the chat loop's clear command: the answers that cancel
ClearDeclined(confirm) == Lower(confirm) = "n"

CliAt(at, files, asked, answer) ==
    cli' = [at |-> at, files |-> files, asked |-> asked, answer |-> answer,
            removed |-> cli.files \ files]

ServerIdle ==
    UNCHANGED <<active, initial, lastId, prevId, lastSet, inv, calls, resp, served,
                registered, pending>>

\* the client starts with any of the history files left by earlier runs; the
\* server it will spawn has registered nothing yet
InitCli ==
    /\ InitTools
    /\ active = SnapName[1]
    /\ lastId = SnapName[1]
    /\ prevId = NoPrev
    /\ registered = NotRegistered
    /\ pending = <<>>
    /\ cli \in [at : {"start"}, files : SUBSET DbFiles, asked : {""}, answer : {""},
                 removed : {{}}]

\* chat_loop starts: prompt_for_session up to its menu; without a database
\* the session is created at once (SQLiteSession makes the file)
StartSession ==
    /\ cli.at = "start"
    /\ IF "db" \in cli.files
       THEN CliAt("menu", cli.files, "", "")
       ELSE CliAt("chat", cli.files \cup {"db"}, "", "")
    /\ ServerIdle

\* one round of the menu of prompt_for_session
MenuChoice ==
    /\ cli.at = "menu"
    /\ \E choice \in {"", "1", "2", "3", "9"}, confirm \in Answers,
          failing \in SUBSET DbFiles :
           LET cleared == clear_database(cli.files, failing) IN
           CASE choice \in {"", "1"} -> CliAt("chat", cli.files, "", "")
             [] choice = "2" ->
                   IF Option2Declined(confirm)
                   THEN CliAt("menu", cli.files, "option2", confirm)
                   ELSE IF cleared.ok
                   THEN CliAt("chat", cleared.files \cup {"db"}, "option2", confirm)
                   ELSE CliAt("menu", cleared.files, "option2", confirm)
             [] choice = "3" -> CliAt("exited", cli.files, "", "")
             [] OTHER -> CliAt("menu", cli.files, "", "")
    /\ ServerIdle

\* one input of the chat loop; a message to the agent is stored in the
\* session, which may leave -shm and -wal files
ChatInput ==
    /\ cli.at = "chat"
    /\ \E msg \in {"exit", "help", "clear", "", "show devices"}, confirm \in Answers,
          failing \in SUBSET DbFiles, written \in SUBSET {"shm", "wal"} :
           LET cleared == clear_database(cli.files, failing) IN
           CASE msg = "exit" -> CliAt("exited", cli.files, "", "")
             [] msg \in {"help", ""} -> CliAt("chat", cli.files, "", "")
             [] msg = "clear" ->
                   IF ClearDeclined(confirm)
                   THEN CliAt("chat", cli.files, "clear", confirm)
                   ELSE IF cleared.ok
                   THEN CliAt("exited", cleared.files, "clear", confirm)
                   ELSE CliAt("chat", cleared.files, "clear", confirm)
             [] OTHER -> CliAt("chat", cli.files \cup {"db"} \cup written, "", "")
    /\ ServerIdle

NextCli ==
    \/ StartSession
    \/ MenuChoice
    \/ ChatInput

SpecCli == InitCli /\ [][NextCli]_vars

\* C30: history files are deleted only after an affirmative confirmation
\* (empty input, y or yes, in any case); any other answer leaves every file
\* in place, at option 2 of the session menu and at the clear command.
C30_DeleteOnlyWhenConfirmed ==
    [][/\ cli.files \ cli'.files # {}
          => /\ cli'.asked \in {"option2", "clear"}
             /\ Lower(cli'.answer) \in {"", "y", "yes"}
       /\ (cli'.asked \in {"option2", "clear"}
             /\ Lower(cli'.answer) \notin {"", "y", "yes"})
          => /\ cli'.files = cli.files
             /\ cli'.removed = {}]_vars

----------------------------------------------------------------------------
(* Properties of the active snapshot pointer *)

\* a handler ran on a mapping of arguments
Ran(names) == inv.name \in names /\ inv.args.isdict /\ resp.kind # "none"

\* where the history of ipf_set_snapshot calls says the pointer stands
ExpectedActive == IF lastSet = NoSet THEN initial ELSE Resolve(lastSet)

\* C1: a query tool invoked without snapshot_id fetches from the snapshot given
\* to the most recent successful ipf_set_snapshot, or from the startup default
\* when no set has succeeded.
C1_QueryUsesLastSetSnapshot ==
    (Ran(QueryTools) /\ inv.args.snapshot_id = Absent)
        => /\ Len(calls) = 1
           /\ calls[1].op = "all"
           /\ calls[1].target = QueryTable[inv.name]
           /\ calls[1].snapshot_id = ExpectedActive

C1_Witness ==
    /\ Ran(QueryTools)
    /\ inv.args.snapshot_id = Absent
    /\ lastSet \in Aliases
    /\ calls[1].snapshot_id # initial

\* C2: a query tool given a snapshot_id key fetches with exactly that value;
\* the active snapshot is used only when the key is absent.
C2_OverrideUsedVerbatim ==
    Ran(QueryTools)
        => /\ Len(calls) = 1
           /\ calls[1].snapshot_id =
                 IF inv.args.snapshot_id = Absent THEN active ELSE inv.args.snapshot_id

C2_Witness ==
    /\ Ran(QueryTools)
    /\ inv.args.snapshot_id = ""
    /\ calls[1].snapshot_id = ""
    /\ resp.success

\* C3: only ipf_set_snapshot changes the active snapshot; every other
\* invocation, succeeding or failing, leaves it as it was.
C3_OnlySetSnapshotMovesPointer ==
    [][active' # active => inv'.name = "ipf_set_snapshot"]_vars

C3_Witness ==
    /\ Ran({"ipf_compare_table"})
    /\ ~Truthy(Get(inv.args, "snapshot_id"))
    /\ Len(calls) = 1
    /\ resp.success
    /\ calls[1].snapshot_id # active
    /\ active # initial

\* ipf_set_snapshot ran and answered success=false
SetSnapshotFailed == Ran({"ipf_set_snapshot"}) /\ ~resp.success

\* a query tool ran without a snapshot_id
QueriedActive == Ran(QueryTools) /\ inv.args.snapshot_id = Absent

\* C22: an ipf_set_snapshot that answers success=false (snapshot_id missing
\* or empty, or the assignment raising) leaves the active snapshot as it was,
\* and a query without snapshot_id fetches from the pointer as it stood
\* before the query.
C22_FailedSetLeavesPointer ==
    [][/\ SetSnapshotFailed' => (active' = active /\ lastSet' = lastSet)
       /\ QueriedActive' => (calls'[1].snapshot_id = active /\ active' = active)]_vars

\* the assignment raised after an earlier set had moved the pointer
C22_Witness ==
    /\ SetSnapshotFailed
    /\ inv.args.snapshot_id = UnknownSnap
    /\ lastSet # NoSet
    /\ active # initial
    /\ active = Resolve(lastSet)

\* C29: the current_snapshot of every envelope a query tool returns, for a
\* success and for a failure, is the active snapshot pointer, whatever
\* snapshot_id the arguments give; it is the override only when the override
\* is the active snapshot.
C29_CurrentSnapshotIsPointer ==
    Ran(QueryTools)
        => /\ resp.kind = "envelope"
           /\ "current_snapshot" \in resp.keys
           /\ resp.current_snapshot = active
           /\ resp.current_snapshot = ExpectedActive
           /\ inv.args.snapshot_id # active
                  => resp.current_snapshot # inv.args.snapshot_id

\* a query of another capture than the active one
C29_Witness ==
    /\ Ran(QueryTools)
    /\ inv.args.snapshot_id \in Captures
    /\ inv.args.snapshot_id # active
    /\ calls[1].snapshot_id = inv.args.snapshot_id
    /\ resp.success
    /\ resp.current_snapshot = active

----------------------------------------------------------------------------
(* Comparing a snapshot with itself *)

\* ipf_compare_table is given the active snapshot's identifier
CompareAgainstCurrent ==
    /\ Ran({"ipf_compare_table"})
    /\ Truthy(inv.args.snapshot_id)
    /\ inv.args.snapshot_id = active

\* ipf_diff_routes is given the same identifier twice
DiffAgainstSelf ==
    /\ Ran({"ipf_diff_routes"})
    /\ inv.args.snapshot_a # Absent
    /\ inv.args.snapshot_a = inv.args.snapshot_b

RejectionTexts ==
    {"Cannot compare against the current snapshot",
     "Cannot compare the same snapshot against itself"}

\* C4: comparing an identifier against itself issues no fetch or compare call
\* and yields no added/removed/changed data; with the other arguments in
\* order the result carries the rejection text.
C4_SelfComparisonNeverDiffs ==
    (CompareAgainstCurrent \/ DiffAgainstSelf)
        => /\ calls = <<>>
           /\ ~resp.success
           /\ resp.data = ""
           /\ "data" \notin resp.keys
           /\ resp.kind # "raised" => resp.message \in RejectionTexts
           /\ inv.args.table_path # Absent \/ DiffAgainstSelf => resp.kind # "raised"

C4_Witness ==
    /\ CompareAgainstCurrent
    /\ inv.args.table_path \in TablePaths
    /\ resp.kind = "tuple"
    /\ calls = <<>>

\* C5: the rejection of identical identifiers is the standard envelope with
\* success=false, an error string and current_snapshot, for both tools.
C5_RejectionIsEnvelope ==
    ((CompareAgainstCurrent /\ inv.args.table_path # Absent) \/ DiffAgainstSelf)
        => /\ resp.kind = "envelope"
           /\ ~resp.success
           /\ {"success", "error", "current_snapshot"} \subseteq resp.keys

\* a required key of the invoked tool is missing from the arguments
RequiredMissing ==
    \/ Ran({"ipf_set_snapshot"}) /\ inv.args.snapshot_id = Absent
    \/ Ran({"ipf_get_available_columns"}) /\ inv.args.table_type = Absent
    \/ Ran({"ipf_compare_table"}) /\ inv.args.table_path = Absent
    \/ Ran({"ipf_diff_routes"})
          /\ (inv.args.snapshot_a = Absent \/ inv.args.snapshot_b = Absent)

\* C6: a tool invoked without one of its required arguments returns a
\* success=false envelope and run_tool never raises.
C6_MissingRequiredIsEnvelope ==
    RequiredMissing => resp.kind = "envelope" /\ ~resp.success

\* the two identifiers of a comparison name one capture
SameCapture ==
    \/ /\ Ran({"ipf_compare_table"})
       /\ inv.args.table_path \in TablePaths
       /\ Known(inv.args.snapshot_id)
       /\ Resolve(inv.args.snapshot_id) = Resolve(active)
    \/ /\ Ran({"ipf_diff_routes"})
       /\ Known(inv.args.snapshot_a)
       /\ Known(inv.args.snapshot_b)
       /\ Resolve(inv.args.snapshot_a) = Resolve(inv.args.snapshot_b)

\* C7: a comparison whose two identifiers resolve to the same capture is
\* rejected with an error, also when one is given as $last or $prev.
C7_SameCaptureRejected ==
    SameCapture => calls = <<>> /\ ~resp.success /\ resp.data = ""

\* C8: without a snapshot_id (absent or empty) ipf_compare_table compares
\* against the capture of $prev, unless that is the active snapshot, and then
\* against the capture of $last; the compare call goes to exactly that target.
C8_SmartSelectionTarget ==
    (Ran({"ipf_compare_table"}) /\ inv.args.table_path # Absent
        /\ ~Truthy(Get(inv.args, "snapshot_id")))
        => /\ Len(calls) <= 1
           /\ (inv.args.table_path \in TablePaths /\ prevId # NoPrev) => Len(calls) = 1
           /\ Len(calls) = 1 =>
                 /\ calls[1].op = "compare"
                 /\ calls[1].target = inv.args.table_path
                 /\ calls[1].snapshot_id = IF prevId = active THEN lastId ELSE prevId

C8_Witness ==
    /\ Ran({"ipf_compare_table"})
    /\ inv.args.snapshot_id = ""
    /\ prevId = active
    /\ lastId # prevId
    /\ Len(calls) = 1
    /\ calls[1].snapshot_id = lastId
    /\ resp.success

\* ipf_compare_table chose its target itself and issued the comparison
AutoTargeted ==
    /\ Ran({"ipf_compare_table"})
    /\ ~Truthy(Get(inv.args, "snapshot_id"))
    /\ Len(calls) = 1

\* C25: when "$prev" and "$last" name different captures, the target that
\* ipf_compare_table selects itself is never the active snapshot, wherever
\* the pointer stands.
C25_AutoTargetNeverActive ==
    (AutoTargeted /\ prevId # NoPrev /\ prevId # lastId)
        => /\ calls[1].snapshot_id # active
           /\ calls[1].snapshot_id \in {prevId, lastId}
           /\ resp.kind = "envelope"

\* the pointer is on the latest capture and "$prev" is chosen
C25_Witness ==
    /\ AutoTargeted
    /\ inv.args.snapshot_id = Absent
    /\ active = lastId
    /\ prevId \notin {NoPrev, lastId}
    /\ calls[1].snapshot_id = prevId

----------------------------------------------------------------------------
(* Failures of the data source and of the invocation *)

\* C9: when a fetch or compare call raises, the query or comparison tool
\* returns a success=false envelope whose error is the exception's message,
\* and issues no further call.
C9_UpstreamErrorVerbatimNoRetry ==
    (Ran(QueryTools \cup {"ipf_compare_table", "ipf_diff_routes"})
        /\ \E i \in 1..Len(calls) : calls[i].raised)
        => /\ resp.kind = "envelope"
           /\ ~resp.success
           /\ "error" \in resp.keys
           /\ "data" \notin resp.keys
           /\ calls[Len(calls)].raised
           /\ resp.error = calls[Len(calls)].msg
           /\ \A i \in 1..(Len(calls) - 1) : ~calls[i].raised

C9_Witness ==
    /\ Ran({"ipf_diff_routes"})
    /\ Len(calls) = 2
    /\ ~calls[1].raised
    /\ calls[2].raised
    /\ resp.error = "timeout"

\* C10: call_tool raises exactly when the arguments are no mapping or the
\* name is not registered; a registered tool called with a mapping returns
\* the handler's envelope.
C10_HardFailuresOnlyProtocol ==
    inv.via = "call_tool"
        => /\ served.kind = "raised"
                <=> (~inv.args.isdict \/ inv.name \notin tool_handlers)
           /\ (inv.args.isdict /\ inv.name \in tool_handlers)
                => (served.kind = "returned" /\ resp.kind = "envelope")

----------------------------------------------------------------------------
(* Unknown tables *)

\* C11: ipf_get_available_columns with a table_type that is no known table
\* returns a success=false envelope that names the type and lists the valid
\* table names, calls the data source not at all and does not raise.
C11_UnknownTableTypeListsValid ==
    (Ran({"ipf_get_available_columns"})
        /\ Truthy(inv.args.table_type)
        /\ inv.args.table_type \notin DOMAIN table_map)
        => /\ resp.kind = "envelope"
           /\ ~resp.success
           /\ resp.error = "Unknown table type: " \o inv.args.table_type
           /\ Range(resp.extra) = DOMAIN table_map
           /\ resp.message = "Available table types: " \o JoinComma(resp.extra)
           /\ calls = <<>>

C11_Witness ==
    /\ Ran({"ipf_get_available_columns"})
    /\ inv.args.table_type = "platforms"
    /\ resp.error = "Unknown table type: platforms"
    /\ "hosts" \in Range(resp.extra)

\* C27: every table_type of the input schema's enum is accepted by run_tool:
\* it maps to a table path, the columns are asked for, and the answer is
\* never the "Unknown table type" error.
C27_EnumValuesAccepted ==
    (Ran({"ipf_get_available_columns"})
        /\ inv.args.table_type \in Range(table_type_enum))
        => /\ inv.args.table_type \in DOMAIN table_map
           /\ resp.error # "Unknown table type: " \o inv.args.table_type
           /\ Len(calls) = 1

\* ipf_compare_table is given a path with a segment the client does not have
BadTablePath ==
    /\ Ran({"ipf_compare_table"})
    /\ inv.args.table_path \notin TablePaths \cup {Absent, Null}

\* the snapshot selection that precedes the table walk went through
SelectionDone ==
    IF Truthy(Get(inv.args, "snapshot_id"))
    THEN inv.args.snapshot_id # active
    ELSE prevId # NoPrev

VerifyPathMessage ==
    "Failed to access table '" \o inv.args.table_path
        \o "' - verify the table path is correct"

\* C12 as claimed: a table_path with a missing segment always yields the
\* success=false result whose message says to verify the table path, and no
\* compare call is issued (the shape of the result is left to C5 and C19).
C12_BadPathAlwaysVerify ==
    BadTablePath
        => /\ ~resp.success
           /\ resp.message = VerifyPathMessage
           /\ calls = <<>>

\* C12 amended: a table_path with a missing segment never leads to a compare
\* call nor to a success; the verify-the-path envelope is returned exactly
\* when the snapshot selection before the walk went through.
C12_BadPathVerifyAfterSelection ==
    BadTablePath
        => /\ calls = <<>>
           /\ ~resp.success
           /\ "data" \notin resp.keys
           /\ resp.kind # "raised"
           /\ SelectionDone => /\ resp.kind = "envelope"
                               /\ resp.message = VerifyPathMessage
                               /\ "error" \in resp.keys
           /\ ~SelectionDone => resp.message # VerifyPathMessage

C12_Witness ==
    /\ BadTablePath
    /\ inv.args.snapshot_id = Absent
    /\ prevId # NoPrev
    /\ resp.kind = "envelope"
    /\ resp.message = "Failed to access table 'inventory.bogus' - verify the table path is correct"
    /\ calls = <<>>

----------------------------------------------------------------------------
(* The route comparison (runs of SpecDiff and of RunDiffRoutes) *)

\* ipf_diff_routes compared the two collections it fetched
Diffed == Ran({"ipf_diff_routes"}) /\ resp.diff.present

\* the collections the two fetches returned, A first
FetchedA == calls[1].rows
FetchedB == calls[2].rows

\* C13: comparing a collection against itself (empty, or with records that
\* share a key, included) yields empty added, removed and changed lists.
C13_SelfDiffEmpty ==
    (Diffed /\ FetchedA = FetchedB)
        => /\ resp.diff.added = <<>>
           /\ resp.diff.removed = <<>>
           /\ resp.diff.changed = <<>>

\* a collection of two different records with one key, against itself
C13_Witness ==
    /\ Diffed
    /\ FetchedA = FetchedB
    /\ Len(FetchedA) = 2
    /\ FetchedA[1] # FetchedA[2]
    /\ FetchedA[1].hostname = FetchedA[2].hostname
    /\ resp.diff.changed = <<>>

\* the comparison of the same two collections taken in the other order
Swapped == _compare_routes(FetchedB, FetchedA, inv.args.snapshot_b, inv.args.snapshot_a)

\* C14: the added list of diff(A, B) is the removed list of diff(B, A), and
\* the removed list of diff(A, B) is the added list of diff(B, A).
C14_AddedRemovedSymmetric ==
    Diffed
        => /\ resp.diff.added = Swapped.removed
           /\ resp.diff.removed = Swapped.added

\* both lists are non-empty, so the symmetry is between non-trivial lists
C14_Witness ==
    /\ Diffed
    /\ resp.diff.added # <<>>
    /\ resp.diff.removed # <<>>
    /\ Swapped.removed = resp.diff.added
    /\ Swapped.added # Swapped.removed

\* the keys of the records of a collection
KeysIn(rows) == {make_key(rows[i]) : i \in 1..Len(rows)}

\* the last record of a collection that has key k
LastWith(rows, k) ==
    rows[CHOOSE i \in 1..Len(rows) :
            /\ make_key(rows[i]) = k
            /\ \A j \in (i + 1)..Len(rows) : make_key(rows[j]) # k]

\* the projection the comparison is specified on: protocol, address and
\* interface of the first next-hop, best metric
Projection(r) ==
    [protocol |-> r.protocol,
     nexthop_ip |-> IF r.nexthop = <<>> THEN Null ELSE Head(r.nexthop).ip,
     intName |-> IF r.nexthop = <<>> THEN Null ELSE Head(r.nexthop).intName,
     metric |-> r.nhLowestMetric]

\* the projection of key k in a collection
ProjectionOf(rows, k) == Projection(LastWith(rows, k))

\* the keys in both collections whose projections differ
Differing ==
    {k \in KeysIn(FetchedA) \cap KeysIn(FetchedB) :
        ProjectionOf(FetchedA, k) # ProjectionOf(FetchedB, k)}

\* C15: changed has exactly one entry per key that is in both collections
\* with differing projections, and no other entry; the entry's changes map
\* has exactly the projection fields that differ, each as {from: the value
\* in A, to: the value in B}.
C15_ChangedExactlyDiffering ==
    Diffed
        => LET changed == resp.diff.changed IN
           /\ \A i \in 1..Len(changed) : changed[i].route \in Differing
           /\ \A k \in Differing :
                  Cardinality({i \in 1..Len(changed) : changed[i].route = k}) = 1
           /\ \A i \in 1..Len(changed) :
                  LET pa == ProjectionOf(FetchedA, changed[i].route)
                      pb == ProjectionOf(FetchedB, changed[i].route)
                      changes == changed[i].changes
                  IN  /\ DOMAIN changes =
                             {f \in {"protocol", "nexthop_ip", "intName", "metric"} :
                                 pa[f] # pb[f]}
                      /\ \A f \in DOMAIN changes :
                             changes[f] = [from |-> pa[f], to |-> pb[f]]

\* the only difference is nhLowestMetric 10 -> 20
C15_Witness ==
    /\ Diffed
    /\ FetchedA = <<BaseRoute>>
    /\ FetchedB = <<[BaseRoute EXCEPT !.nhLowestMetric = 20]>>
    /\ resp.diff.changed =
           <<[route |-> "r1|default|10.0.0.0/24",
              changes |-> [metric |-> [from |-> 10, to |-> 20]]]>>
    /\ resp.diff.added = <<>>
    /\ resp.diff.removed = <<>>

\* the list holds exactly the keys of the set, each once
ListsOnce(list, keys) ==
    /\ Range(list) = keys
    /\ Len(list) = Cardinality(keys)

\* C16: removed lists, each once, exactly the keys of A that are not keys of
\* B, and added exactly the keys of B that are not keys of A; with A empty,
\* added lists every distinct key of B and removed and changed are empty.
C16_AddedRemovedAreKeyDifferences ==
    Diffed
        => /\ ListsOnce(resp.diff.removed, KeysIn(FetchedA) \ KeysIn(FetchedB))
           /\ ListsOnce(resp.diff.added, KeysIn(FetchedB) \ KeysIn(FetchedA))
           /\ FetchedA = <<>>
                  => /\ ListsOnce(resp.diff.added, KeysIn(FetchedB))
                     /\ resp.diff.removed = <<>>
                     /\ resp.diff.changed = <<>>

\* A is empty and B has the same key twice: the key is added once
C16_Witness ==
    /\ Diffed
    /\ FetchedA = <<>>
    /\ Len(FetchedB) = 2
    /\ resp.diff.added = <<"r2|default|10.0.0.0/24">>
    /\ resp.diff.removed = <<>>

\* the collection without the records that a later record of the same key
\* follows
LastOnly(rows) ==
    LET kept[i \in 0..Len(rows)] ==
            IF i = 0 THEN <<>>
            ELSE IF \A j \in (i + 1)..Len(rows) : make_key(rows[j]) # make_key(rows[i])
                 THEN Append(kept[i - 1], rows[i])
                 ELSE kept[i - 1]
    IN  kept[Len(rows)]

\* the comparison of the two collections without their earlier duplicates
OfLastOnly ==
    _compare_routes(LastOnly(FetchedA), LastOnly(FetchedB),
                    inv.args.snapshot_a, inv.args.snapshot_b)

AgreeOnProjection(ra, rb) ==
    /\ ra.protocol = rb.protocol
    /\ ra.nhLowestMetric = rb.nhLowestMetric
    /\ (ra.nexthop = <<>>) = (rb.nexthop = <<>>)
    /\ ra.nexthop # <<>> /\ rb.nexthop # <<>>
           => /\ ra.nexthop[1].ip = rb.nexthop[1].ip
              /\ ra.nexthop[1].intName = rb.nexthop[1].intName

\* C18: when the two records compared for a key differ only outside the
\* projection (id, next-hop age, next-hops after the first), changed has no
\* entry for the key.
C18_OutsideProjectionNeverChanged ==
    Diffed
        => \A k \in KeysIn(FetchedA) \cap KeysIn(FetchedB) :
               AgreeOnProjection(LastWith(FetchedA, k), LastWith(FetchedB, k))
                   => \A i \in 1..Len(resp.diff.changed) : resp.diff.changed[i].route # k

\* B's record has another id, another next-hop age and a second next-hop
C18_Witness ==
    /\ Diffed
    /\ FetchedA = <<BaseRoute>>
    /\ Len(FetchedB) = 1
    /\ make_key(FetchedB[1]) = make_key(BaseRoute)
    /\ FetchedB[1].id # BaseRoute.id
    /\ Len(FetchedB[1].nexthop) = 2
    /\ FetchedB[1].nexthop[1].age # BaseRoute.nexthop[1].age
    /\ resp.diff.changed = <<>>

\* the keys of the changed entries
ChangedKeys == {resp.diff.changed[i].route : i \in 1..Len(resp.diff.changed)}

\* C24: summary_counts gives the lengths of added, removed and changed, and
\* no key is in two of added, removed and the keys of changed.
C24_CountsAndDisjointness ==
    Diffed
        => /\ resp.diff.summary_counts.added = Len(resp.diff.added)
           /\ resp.diff.summary_counts.removed = Len(resp.diff.removed)
           /\ resp.diff.summary_counts.modified = Len(resp.diff.changed)
           /\ Range(resp.diff.added) \cap Range(resp.diff.removed) = {}
           /\ Range(resp.diff.added) \cap ChangedKeys = {}
           /\ Range(resp.diff.removed) \cap ChangedKeys = {}

\* one key is in both collections unchanged and another is added
C24_Witness ==
    /\ Diffed
    /\ Len(FetchedA) = 1
    /\ Len(FetchedB) = 2
    /\ resp.diff.summary_counts = [added |-> 1, removed |-> 0, modified |-> 0]
    /\ Len(resp.diff.added) = 1
    /\ resp.diff.changed = <<>>

\* the (hostname, vrf, network) of a record
Triple(r) == <<r.hostname, r.vrf, r.network>>

\* C28: two routes whose (hostname, vrf, network) differ in any component
\* never get the same key, so one is reported removed and the other added,
\* also when a value holds "|" or when an absent value meets the text "None".
C28_KeyInjective ==
    (Diffed /\ Len(FetchedA) = 1 /\ Len(FetchedB) = 1
        /\ Triple(FetchedA[1]) # Triple(FetchedB[1]))
        => /\ make_key(FetchedA[1]) # make_key(FetchedB[1])
           /\ resp.diff.removed = <<make_key(FetchedA[1])>>
           /\ resp.diff.added = <<make_key(FetchedB[1])>>
           /\ resp.diff.changed = <<>>

----------------------------------------------------------------------------
(* The shape of what run_tool returns *)

\* a handler's run_tool ran and returned a value (it did not raise)
Returned == resp.kind \notin {"none", "raised"}

\* C19: every value a handler's run_tool returns is the envelope, with
\* success and current_snapshot always, data and no error exactly when
\* success is true, error and no data exactly when success is false.
C19_EveryReturnIsEnvelope ==
    Returned
        => /\ resp.kind = "envelope"
           /\ {"success", "current_snapshot"} \subseteq resp.keys
           /\ resp.success <=> "data" \in resp.keys
           /\ resp.success <=> "error" \notin resp.keys

----------------------------------------------------------------------------
(* ipf_diff_routes when a fetch fails *)

\* a fetch of the invocation raised
FetchRaised == \E i \in 1..Len(calls) : calls[i].raised

\* C20: ipf_diff_routes returns success=true and a diff only when the
\* fetches of both snapshots returned; when either fetch raises, the second
\* after a first that returned included, the response is the success=false
\* envelope carrying the fetch's message and no added/removed/changed data.
C20_DiffOnlyWhenBothFetched ==
    Ran({"ipf_diff_routes"})
        => /\ (resp.success \/ resp.diff.present)
                  => /\ Len(calls) = 2
                     /\ ~calls[1].raised
                     /\ ~calls[2].raised
                     /\ resp.success
                     /\ resp.diff.present
           /\ FetchRaised
                  => /\ resp.kind = "envelope"
                     /\ ~resp.success
                     /\ "data" \notin resp.keys
                     /\ ~resp.diff.present
                     /\ resp.error = calls[Len(calls)].msg

\* the first fetch returned records and the second raised
C20_Witness ==
    /\ Ran({"ipf_diff_routes"})
    /\ Len(calls) = 2
    /\ ~calls[1].raised
    /\ calls[1].rows # <<>>
    /\ calls[2].raised
    /\ ~resp.success
    /\ resp.error = "timeout"
    /\ ~resp.diff.present

====
